---- MODULE Spec2Model ----
(***************************************************************************)
(* Model of auto_api.core: CodeAnalyser.analyze_codebase (analyser.py) and *)
(* APIMonitor.monitor_api_usage (monitor.py).                              *)
(*                                                                         *)
(* The analyser walks a directory, and for every file whose name ends in   *)
(* '.py' runs, inside one try block: open/read, time.sleep(1/max_retries), *)
(* ast.parse, importlib.import_module(stem), _get_functions, and one       *)
(* append per collected FunctionDef.  `except Exception` logs and goes on. *)
(*                                                                         *)
(* The monitor loops forever over api_endpoints, one request per endpoint, *)
(* then calls time.sleep(60).  monitor.py never binds the name `time`.     *)
(***************************************************************************)
EXTENDS Integers, Sequences, FiniteSets, TLC

----------------------------------------------------------------------------
(* Bounds of the model *)

\* files yielded by os.walk, in walk order
MaxFiles == 2
\* definition nodes (def / async def) in the whole codebase
MaxNodes == 2
\* largest max_retries given to CodeAnalyser.__init__ (smallest is -1)
MaxRetries == 1
\* entries of the api_endpoints dict
MaxEndpoints == 2

----------------------------------------------------------------------------
(* Inputs *)

Stems == {"a", "b"}
\* The modules importlib.import_module finds on sys.path: the environment of
\* the run, not the text of any file.  Module "a" imports, module "b" does not.
ImportableStems == {"a"}
\* FunctionDef is what FunctionVisitor.visit_FunctionDef matches; an
\* AsyncFunctionDef is a definition node the visitor only walks through.
Kinds == {"FunctionDef", "AsyncFunctionDef"}

\* A syntax tree: the definition nodes of a module in source order, each with
\* the index of its enclosing definition node (0 = the Module node).
TreesOfSize(n) ==
    { [i \in 1..n |-> [kind |-> k[i], parent |-> p[i], name |-> i]] :
        k \in [1..n -> Kinds],
        p \in { q \in [1..n -> 0..(n - 1)] : \A i \in 1..n : q[i] < i } }

Trees == UNION { TreesOfSize(n) : n \in 0..MaxNodes }

\* A file of the walk.  What the code never reads of a file is fixed: a file
\* that is not '.py' is never opened, an unreadable file has no text to
\* parse, an unparseable text has no tree, and the stem of a file is read
\* only by the import, which those files never reach.
FileInputs ==
    { [stem |-> "a", ext |-> ".txt", readable |-> TRUE, parseable |-> FALSE, tree |-> <<>>],
      [stem |-> "a", ext |-> ".py", readable |-> FALSE, parseable |-> FALSE, tree |-> <<>>],
      [stem |-> "a", ext |-> ".py", readable |-> TRUE, parseable |-> FALSE, tree |-> <<>>] }
    \cup
    { [stem |-> s, ext |-> ".py", readable |-> TRUE, parseable |-> TRUE, tree |-> t] :
        s \in Stems, t \in Trees }

\* Every walk of at most n files whose trees hold at most `budget` nodes.
RECURSIVE WalksWithin(_, _)
WalksWithin(n, budget) ==
    IF n = 0 THEN { <<>> }
    ELSE { <<>> } \cup
         UNION { { <<f>> \o w : w \in WalksWithin(n - 1, budget - Len(f.tree)) } :
                   f \in { g \in FileInputs : Len(g.tree) <= budget } }

Walks == WalksWithin(MaxFiles, MaxNodes)

----------------------------------------------------------------------------
(* State *)

VARIABLES
    \* CodeAnalyser / analyze_codebase
    max_retries,            \* self.max_retries
    files,                  \* the '.py' and other files os.walk yields, in order
    pc,                     \* position in analyze_codebase
    idx,                    \* index of the file the walk is at
    functions,              \* result of _get_functions for the current file
    k,                      \* position of `for func in functions`
    exc,                    \* the step whose exception is being handled
    documentation_entries,  \* the list being built and returned
    origin,                 \* per entry: <<file index, node index>> it came from
    attempts,               \* per file: number of times it was opened
    errors,                 \* logger.error calls: <<file index, failing step>>
    raised,                 \* an exception left analyze_codebase
    \* APIMonitor / monitor_api_usage
    api_endpoints,          \* the dict, as its keys in iteration order
    mpc,                    \* position in monitor_api_usage
    pos,                    \* index of the endpoint the for loop is at
    passes,                 \* completed passes over api_endpoints
    sleeps,                 \* completed time.sleep(60) calls
    requested,              \* per endpoint: requests made in the current pass
    last_updated,           \* keys of the last_updated dict
    mlog                    \* logger.error calls: <<endpoint, message, str(e)>>

avars == <<max_retries, files, pc, idx, functions, k, exc,
           documentation_entries, origin, attempts, errors, raised>>
mvars == <<api_endpoints, mpc, pos, passes, sleeps, requested, last_updated, mlog>>
vars == <<avars, mvars>>

----------------------------------------------------------------------------
(* analyser.py: pure parts *)

\* Variant of EndsWithPy: the suffix test lets every file through.
EndsWithPyAnySuffix(f) == f.ext \in {".py", ".txt"}

\* file.endswith('.py')
EndsWithPy(f) == f.ext = ".py"

\* file_path.split('/')[-1]: the file's name without its directory
ModuleName(f) == <<f.stem, f.ext>>

\* Variant of DelayFails: the division is guarded against zero.
DelayFailsNegativeOnly(mr) == mr < 0

\* 1 / self.max_retries raises ZeroDivisionError for 0; time.sleep raises
\* ValueError for a negative length.
DelayFails(mr) == mr = 0 \/ mr < 0

\* FunctionVisitor: visit_FunctionDef runs generic_visit(node) and then
\* appends node; every other node is walked by generic_visit alone.
\* generic_visit visits the children in source order.
RECURSIVE GenericVisit(_, _, _)
GenericVisit(tree, p, i) ==
    IF i > Len(tree) THEN <<>>
    ELSE IF tree[i].parent # p THEN GenericVisit(tree, p, i + 1)
    ELSE LET below == GenericVisit(tree, i, i + 1)
             here == IF tree[i].kind = "FunctionDef" THEN below \o <<i>> ELSE below
         IN here \o GenericVisit(tree, p, i + 1)

\* Variant of _get_functions: the visitor appends the node before it visits
\* the node's body.
RECURSIVE PreOrderVisit(_, _, _)
PreOrderVisit(tree, p, i) ==
    IF i > Len(tree) THEN <<>>
    ELSE IF tree[i].parent # p THEN PreOrderVisit(tree, p, i + 1)
    ELSE LET below == PreOrderVisit(tree, i, i + 1)
             here == IF tree[i].kind = "FunctionDef" THEN <<i>> \o below ELSE below
         IN here \o PreOrderVisit(tree, p, i + 1)

_get_functions_preorder(tree) == PreOrderVisit(tree, 0, 1)

_get_functions(tree) == GenericVisit(tree, 0, 1)

\* APIDocumentationEntry(module_name=..., function_name=func.name, ...)
Entry(f, n) == [module_name |-> ModuleName(f), function_name |-> f.tree[n].name]

----------------------------------------------------------------------------
(* analyser.py: analyze_codebase *)

\* monitor_api_usage has not been called
MonitorIdle ==
    /\ api_endpoints = <<>>
    /\ mpc = "idle"
    /\ pos = 1
    /\ passes = 0
    /\ sleeps = 0
    /\ requested = <<>>
    /\ last_updated = {}
    /\ mlog = <<>>

Init ==
    /\ max_retries \in (-1)..MaxRetries
    /\ files \in Walks
    /\ pc = "for"
    /\ idx = 1
    /\ functions = <<>>
    /\ k = 1
    /\ exc = "none"
    /\ documentation_entries = <<>>
    /\ origin = <<>>
    /\ attempts = [i \in 1..Len(files) |-> 0]
    /\ errors = <<>>
    /\ raised = FALSE
    /\ MonitorIdle

\* the walk is exhausted: return documentation_entries
Return ==
    /\ pc = "for"
    /\ idx > Len(files)
    /\ pc' = "done"
    /\ UNCHANGED <<max_retries, files, idx, functions, k, exc,
                   documentation_entries, origin, attempts, errors, raised>>
    /\ UNCHANGED mvars

\* if not file.endswith('.py'): continue
SkipFile ==
    /\ pc = "for"
    /\ idx <= Len(files)
    /\ ~EndsWithPy(files[idx])
    /\ idx' = idx + 1
    /\ UNCHANGED <<max_retries, files, pc, functions, k, exc,
                   documentation_entries, origin, attempts, errors, raised>>
    /\ UNCHANGED mvars

\* file_path = os.path.join(root, file); try:
EnterTry ==
    /\ pc = "for"
    /\ idx <= Len(files)
    /\ EndsWithPy(files[idx])
    /\ pc' = "open"
    /\ UNCHANGED <<max_retries, files, idx, functions, k, exc,
                   documentation_entries, origin, attempts, errors, raised>>
    /\ UNCHANGED mvars

\* with open(file_path, ...) as f: content = f.read()
Open ==
    /\ pc = "open"
    /\ attempts' = [attempts EXCEPT ![idx] = @ + 1]
    /\ IF files[idx].readable
         THEN pc' = "sleep" /\ exc' = exc
         ELSE pc' = "except" /\ exc' = "open"
    /\ UNCHANGED <<max_retries, files, idx, functions, k,
                   documentation_entries, origin, errors, raised>>
    /\ UNCHANGED mvars

\* time.sleep(1 / self.max_retries)
Sleep ==
    /\ pc = "sleep"
    /\ IF DelayFails(max_retries)
         THEN pc' = "except" /\ exc' = "delay"
         ELSE pc' = "parse" /\ exc' = exc
    /\ UNCHANGED <<max_retries, files, idx, functions, k,
                   documentation_entries, origin, attempts, errors, raised>>
    /\ UNCHANGED mvars

\* tree = ast.parse(content)
Parse ==
    /\ pc = "parse"
    /\ IF files[idx].parseable
         THEN pc' = "import" /\ exc' = exc
         ELSE pc' = "except" /\ exc' = "parse"
    /\ UNCHANGED <<max_retries, files, idx, functions, k,
                   documentation_entries, origin, attempts, errors, raised>>
    /\ UNCHANGED mvars

\* module = importlib.import_module(os.path.splitext(file)[0])
Import ==
    /\ pc = "import"
    /\ IF files[idx].stem \in ImportableStems
         THEN pc' = "collect" /\ exc' = exc
         ELSE pc' = "except" /\ exc' = "import"
    /\ UNCHANGED <<max_retries, files, idx, functions, k,
                   documentation_entries, origin, attempts, errors, raised>>
    /\ UNCHANGED mvars

\* functions = self._get_functions(tree)
Collect ==
    /\ pc = "collect"
    /\ functions' = _get_functions(files[idx].tree)
    /\ k' = 1
    /\ pc' = "append"
    /\ UNCHANGED <<max_retries, files, idx, exc,
                   documentation_entries, origin, attempts, errors, raised>>
    /\ UNCHANGED mvars

\* Variant of AppendEntry: building the entry of any function after the
\* first one of a file raises.
AppendEntryFailing ==
    /\ pc = "append"
    /\ k <= Len(functions)
    /\ IF k = 1
         THEN /\ documentation_entries' =
                    Append(documentation_entries, Entry(files[idx], functions[k]))
              /\ origin' = Append(origin, <<idx, functions[k]>>)
              /\ k' = k + 1
              /\ UNCHANGED <<pc, exc>>
         ELSE /\ pc' = "except"
              /\ exc' = "entry"
              /\ UNCHANGED <<documentation_entries, origin, k>>
    /\ UNCHANGED <<max_retries, files, idx, functions, attempts, errors, raised>>
    /\ UNCHANGED mvars

\* for func in functions: ... documentation_entries.append(entry)
AppendEntry ==
    /\ pc = "append"
    /\ k <= Len(functions)
    /\ documentation_entries' =
          Append(documentation_entries, Entry(files[idx], functions[k]))
    /\ origin' = Append(origin, <<idx, functions[k]>>)
    /\ k' = k + 1
    /\ UNCHANGED <<max_retries, files, pc, idx, functions, exc,
                   attempts, errors, raised>>
    /\ UNCHANGED mvars

\* the for loop over functions ends: the try block is left normally
LeaveTry ==
    /\ pc = "append"
    /\ k > Len(functions)
    /\ idx' = idx + 1
    /\ pc' = "for"
    /\ UNCHANGED <<max_retries, files, functions, k, exc,
                   documentation_entries, origin, attempts, errors, raised>>
    /\ UNCHANGED mvars

\* Variant of Except: the handler logs and re-raises.
ExceptReraise ==
    /\ pc = "except"
    /\ errors' = Append(errors, <<idx, exc>>)
    /\ raised' = TRUE
    /\ pc' = "done"
    /\ UNCHANGED <<max_retries, files, idx, functions, k, exc,
                   documentation_entries, origin, attempts>>
    /\ UNCHANGED mvars

\* Variant of Except: the handler retries the file up to max_retries times.
ExceptRetry ==
    /\ pc = "except"
    /\ errors' = Append(errors, <<idx, exc>>)
    /\ exc' = "none"
    /\ IF attempts[idx] <= max_retries
         THEN pc' = "open" /\ idx' = idx
         ELSE pc' = "for" /\ idx' = idx + 1
    /\ UNCHANGED <<max_retries, files, functions, k,
                   documentation_entries, origin, attempts, raised>>
    /\ UNCHANGED mvars

\* except Exception as e: logger.error(...); continue
Except ==
    /\ pc = "except"
    /\ errors' = Append(errors, <<idx, exc>>)
    /\ exc' = "none"
    /\ idx' = idx + 1
    /\ pc' = "for"
    /\ UNCHANGED <<max_retries, files, functions, k,
                   documentation_entries, origin, attempts, raised>>
    /\ UNCHANGED mvars

Next ==
    \/ Return
    \/ SkipFile
    \/ EnterTry
    \/ Open
    \/ Sleep
    \/ Parse
    \/ Import
    \/ Collect
    \/ AppendEntry
    \/ LeaveTry
    \/ Except

Spec == Init /\ [][Next]_vars

----------------------------------------------------------------------------
(* monitor.py: monitor_api_usage *)

\* The names monitor.py binds at module level (its imports, logger and
\* class).  The module never imports `time`, so evaluating time.time() or
\* time.sleep raises NameError.
ModuleGlobals == {"logging", "Dict", "Any", "CodeAnalyser", "logger", "APIMonitor"}

\* What self._make_request(endpoint_url) can do: return a response with
\* ok set, return one with ok unset, or raise.
RequestOutcomes == {"ok", "not_ok", "raise"}

\* What response.json() followed by self._update_documentation(...) can do.
UpdateOutcomes == {"ok", "raise"}

EndpointNames == 1..MaxEndpoints

\* A dict has distinct keys and iterates in insertion order.
EndpointDicts ==
    { d \in UNION { [1..n -> EndpointNames] : n \in 0..MaxEndpoints } :
        \A i, j \in 1..Len(d) : i # j => d[i] # d[j] }

\* analyze_codebase has not been called
AnalyserIdle ==
    /\ max_retries = 3
    /\ files = <<>>
    /\ pc = "idle"
    /\ idx = 1
    /\ functions = <<>>
    /\ k = 1
    /\ exc = "none"
    /\ documentation_entries = <<>>
    /\ origin = <<>>
    /\ attempts = <<>>
    /\ errors = <<>>
    /\ raised = FALSE

\* last_updated = {}; while True:
MonitorInit ==
    /\ api_endpoints \in EndpointDicts
    /\ mpc = "for"
    /\ pos = 1
    /\ passes = 0
    /\ sleeps = 0
    /\ requested = [e \in EndpointNames |-> 0]
    /\ last_updated = {}
    /\ mlog = <<>>
    /\ AnalyserIdle

\* for endpoint_name, endpoint_url in api_endpoints.items(): try:
NextEndpoint ==
    /\ mpc = "for"
    /\ pos <= Len(api_endpoints)
    /\ mpc' = "request"
    /\ UNCHANGED <<api_endpoints, pos, passes, sleeps, requested, last_updated, mlog>>
    /\ UNCHANGED avars

\* the for loop is exhausted: the pass is over
EndPass ==
    /\ mpc = "for"
    /\ pos > Len(api_endpoints)
    /\ mpc' = "sleep"
    /\ passes' = passes + 1
    /\ UNCHANGED <<api_endpoints, pos, sleeps, requested, last_updated, mlog>>
    /\ UNCHANGED avars

\* response = self._make_request(endpoint_url); if not response.ok: log, continue
Request ==
    /\ mpc = "request"
    /\ requested' = [requested EXCEPT ![api_endpoints[pos]] = @ + 1]
    /\ \E outcome \in RequestOutcomes :
         CASE outcome = "ok" ->
                /\ mpc' = "update"
                /\ UNCHANGED <<pos, mlog>>
           [] outcome = "not_ok" ->
                /\ mlog' = Append(mlog, <<api_endpoints[pos], "Failed request", "status">>)
                /\ pos' = pos + 1
                /\ mpc' = "for"
           [] outcome = "raise" ->
                /\ mlog' = Append(mlog, <<api_endpoints[pos], "Error monitoring", "request">>)
                /\ pos' = pos + 1
                /\ mpc' = "for"
    /\ UNCHANGED <<api_endpoints, passes, sleeps, last_updated>>
    /\ UNCHANGED avars

\* usage_data = response.json(); self._update_documentation(endpoint_name, usage_data)
Update ==
    /\ mpc = "update"
    /\ \E outcome \in UpdateOutcomes :
         IF outcome = "ok"
           THEN /\ mpc' = "stamp"
                /\ UNCHANGED <<pos, mlog>>
           ELSE /\ mlog' = Append(mlog, <<api_endpoints[pos], "Error monitoring", "update">>)
                /\ pos' = pos + 1
                /\ mpc' = "for"
    /\ UNCHANGED <<api_endpoints, passes, sleeps, requested, last_updated>>
    /\ UNCHANGED avars

\* last_updated[endpoint_name] = time.time(), inside the try block
Stamp ==
    /\ mpc = "stamp"
    /\ IF "time" \in ModuleGlobals
         THEN /\ last_updated' = last_updated \cup {api_endpoints[pos]}
              /\ mlog' = mlog
         ELSE /\ mlog' = Append(mlog, <<api_endpoints[pos], "Error monitoring", "NameError">>)
              /\ last_updated' = last_updated
    /\ pos' = pos + 1
    /\ mpc' = "for"
    /\ UNCHANGED <<api_endpoints, passes, sleeps, requested>>
    /\ UNCHANGED avars

\* time.sleep(60), outside every try block; then `while True` starts the
\* next pass
SleepMinute ==
    /\ mpc = "sleep"
    /\ IF "time" \in ModuleGlobals
         THEN /\ sleeps' = sleeps + 1
              /\ pos' = 1
              /\ requested' = [e \in EndpointNames |-> 0]
              /\ mpc' = "for"
         ELSE /\ mpc' = "raised"
              /\ UNCHANGED <<sleeps, pos, requested>>
    /\ UNCHANGED <<api_endpoints, passes, last_updated, mlog>>
    /\ UNCHANGED avars

MonitorNext ==
    \/ NextEndpoint
    \/ EndPass
    \/ Request
    \/ Update
    \/ Stamp
    \/ SleepMinute

MonitorSpec == MonitorInit /\ [][MonitorNext]_vars

\* The thread running monitor_api_usage keeps running: a step that can be
\* taken is taken.
MonitorFairSpec == MonitorSpec /\ WF_vars(MonitorNext)

----------------------------------------------------------------------------
(* Properties of analyze_codebase *)

FileIds == 1..Len(files)

\* positions of the returned list that hold an entry of file i
EntriesOf(i) == { q \in 1..Len(origin) : origin[q][1] = i }

\* the FunctionDef nodes of file i's syntax tree
FunctionDefs(i) ==
    { n \in 1..Len(files[i].tree) : files[i].tree[n].kind = "FunctionDef" }

\* positions of the returned list that hold the entry of node n of file i
EntriesFor(i, n) ==
    { q \in 1..Len(origin) :
        /\ origin[q] = <<i, n>>
        /\ documentation_entries[q] = Entry(files[i], n) }

\* the error log holds a line for file i
Logged(i) == \E e \in 1..Len(errors) : errors[e][1] = i

\* file i is a '.py' file none of whose steps raises
Processable(i) ==
    /\ files[i].ext = ".py"
    /\ files[i].readable
    /\ max_retries >= 1
    /\ files[i].parseable
    /\ files[i].stem \in ImportableStems

\* node a encloses node d in the tree
RECURSIVE Encloses(_, _, _)
Encloses(tree, a, d) ==
    IF d = 0 THEN FALSE
    ELSE tree[d].parent = a \/ Encloses(tree, a, tree[d].parent)

\* nesting level of node n
RECURSIVE Level(_, _)
Level(tree, n) == IF n = 0 THEN 0 ELSE 1 + Level(tree, tree[n].parent)

C3_EntriesDependOnlyOnText ==
    pc = "done" =>
       \A i \in FileIds :
          (/\ max_retries >= 1
           /\ files[i].ext = ".py"
           /\ files[i].readable
           /\ files[i].parseable)
          => \A n \in FunctionDefs(i) : Cardinality(EntriesFor(i, n)) = 1

\* C4: whatever max_retries is, no file is attempted more than once in one
\* call, a failed file included.
C4_AtMostOneAttempt ==
    \A i \in FileIds : attempts[i] <= 1

\* a file failed under max_retries >= 1 and the call returned
C4_Witness ==
    /\ pc = "done"
    /\ max_retries >= 1
    /\ \E i \in FileIds : Logged(i) /\ attempts[i] = 1

\* what a '.py' file contributes when it is processed on its own
RECURSIVE NodeEntries(_, _)
NodeEntries(f, ns) ==
    IF ns = <<>> THEN <<>>
    ELSE <<Entry(f, Head(ns))>> \o NodeEntries(f, Tail(ns))

Contribution(f) ==
    IF f.readable /\ max_retries >= 1 /\ f.parseable /\ f.stem \in ImportableStems
      THEN NodeEntries(f, _get_functions(f.tree))
      ELSE <<>>

RECURSIVE Contributions(_)
Contributions(fs) ==
    IF fs = <<>> THEN <<>>
    ELSE Contribution(Head(fs)) \o Contributions(Tail(fs))

HasPySuffix(f) == f.ext = ".py"

\* C6: a file whose name does not end in '.py' is never opened, logs no
\* error and contributes no entry, and the returned list is the one the
\* '.py' files alone produce.
C6_NonPythonFilesSkipped ==
    /\ \A i \in FileIds :
          files[i].ext # ".py" =>
             attempts[i] = 0 /\ EntriesOf(i) = {} /\ ~Logged(i)
    /\ pc = "done" =>
          documentation_entries = Contributions(SelectSeq(files, HasPySuffix))

\* a file that is not '.py' stands before a '.py' file that has entries
C6_Witness ==
    /\ pc = "done"
    /\ \E i, j \in FileIds :
         i < j /\ files[i].ext # ".py" /\ EntriesOf(j) # {}

\* C7: entries are in collection order: by file in walk order (so the
\* entries of one file are contiguous), and within a file a nested function
\* comes before the function that encloses it and functions of one nesting
\* level come in source order.
C7_CollectionOrder ==
    \A q, r \in 1..Len(origin) :
       LET i == origin[q][1]
           j == origin[r][1]
           n == origin[q][2]
           m == origin[r][2]
       IN /\ q < r => i <= j
          /\ (i = j /\ Encloses(files[i].tree, m, n)) => q < r
          /\ (i = j /\ n < m /\ Level(files[i].tree, n) = Level(files[i].tree, m))
                => q < r

\* the list holds a nested function and, after it, the one enclosing it
C7_Witness ==
    /\ pc = "done"
    /\ \E q, r \in 1..Len(origin) :
         /\ q < r
         /\ origin[q][1] = origin[r][1]
         /\ Encloses(files[origin[q][1]].tree, origin[r][2], origin[q][2])

\* C8: a file the walk has left has either all of its collected functions
\* in the list or none, and an exception is only ever handled while the
\* list holds no entry of the current file.
C8_FileAtomic ==
    /\ \A i \in FileIds :
          (i < idx \/ pc = "done") =>
             \/ EntriesOf(i) = {}
             \/ Cardinality(EntriesOf(i)) = Len(_get_functions(files[i].tree))
    /\ pc = "except" => EntriesOf(idx) = {}

\* one file gave two entries and another one failed
C8_Witness ==
    /\ pc = "done"
    /\ \E i, j \in FileIds :
         /\ Cardinality(EntriesOf(i)) >= 2
         /\ Logged(j) /\ EntriesOf(j) = {}

\* C9: with max_retries = 0 the delay raises for every '.py' file that was
\* read, the list stays empty and nothing is raised; with max_retries >= 1
\* the delay never raises.
C9_ZeroRetriesEmptyResult ==
    /\ max_retries = 0 =>
         /\ documentation_entries = <<>>
         /\ ~raised
         /\ pc = "done" =>
              \A i \in FileIds :
                 (files[i].ext = ".py" /\ files[i].readable)
                    => \E e \in 1..Len(errors) : errors[e] = <<i, "delay">>
    /\ max_retries >= 1 =>
         /\ exc # "delay"
         /\ \A e \in 1..Len(errors) : errors[e][2] # "delay"

\* max_retries = 0 and the walk met a file that has functions and would
\* otherwise read, parse and import
C9_Witness ==
    /\ pc = "done"
    /\ max_retries = 0
    /\ \E i \in FileIds :
         /\ files[i].ext = ".py" /\ files[i].readable /\ files[i].parseable
         /\ files[i].stem \in ImportableStems
         /\ FunctionDefs(i) # {}
         /\ \E e \in 1..Len(errors) : errors[e] = <<i, "delay">>

----------------------------------------------------------------------------
(* Properties of monitor_api_usage *)

InDict(e) == \E i \in 1..Len(api_endpoints) : api_endpoints[i] = e

\* C2: a failure for one endpoint never stops the loop: when a pass ends
\* every endpoint was requested in it, and every endpoint is requested
\* again and again for ever.
C2_EveryEndpointRequestedForever ==
    /\ [](mpc = "sleep" => \A e \in EndpointNames : InDict(e) => requested[e] = 1)
    /\ \A e \in EndpointNames :
          []<>(InDict(e) => (mpc = "request" /\ api_endpoints[pos] = e))

\* C5: monitor_api_usage never ends, and one completed sleep follows every
\* pass.
C5_NeverEndsOneSleepPerPass ==
    /\ mpc # "raised"
    /\ mpc = "sleep" => sleeps = passes - 1
    /\ mpc # "sleep" => sleeps = passes

====
